---- MODULE Spec2Model ----
(***************************************************************************)
(* Model of the icnsutil command line front end (src/icnsutil/cli.py):     *)
(* the commands convert, compose, update and test (verify).                *)
(*                                                                         *)
(* Strings (paths, keys, KEY=FILE arguments, stdin lines) are sequences of *)
(* tokens: "." "/" "=" " " "\n" stand for themselves, every other token is *)
(* a non-empty run of characters holding none of those.                    *)
(* The file system is a function from the existing paths to file contents. *)
(* The library objects the front end drives (IcnsFile, IcnsType,           *)
(* ArgbImage) are modelled from the specification's sections 3, 4 and 7.   *)
(***************************************************************************)
EXTENDS Integers, Sequences, FiniteSets, TLC

VARIABLES
    cmd,          \* the sub-command that runs: args.func
    args,         \* the parsed arguments (argparse Namespace)
    stdin,        \* the lines sys.stdin.readlines() returns
    fs,           \* the file system: existing path -> content
    pc,           \* position of the running handler
    todo,         \* what the handler's current for loop has left to iterate
    icns,         \* the in-memory IcnsFile (img in cli_compose)
    has_changes,  \* cli_update's local has_changes
    is_valid,     \* cli_verify's local is_valid: "True", "None" or "False"
    cur,          \* cli_verify's loop variable: index and name of the file
    out,          \* what was printed, in order
    error,        \* the exception that ended the handler, or "none"
    writes,       \* the paths written, in order
    reads,        \* the paths opened for reading
    last,         \* history: the last library call with its before-state
    fs0           \* history: the file system when the command started

vars == <<cmd, args, stdin, fs, pc, todo, icns, has_changes, is_valid, cur,
          out, error, writes, reads, last, fs0>>

\* Python's None where a string may stand: no string holds the empty token
None == <<"">>
\* no IcnsFile object was made yet
NoArchive == [entries |-> <<>>, toc |-> FALSE, live |-> FALSE]
NoCall == [call |-> "none"]

----------------------------------------------------------------------------
(* Bounds of the model *)

MaxSources == 2   \* compose: number of src arguments
MaxEntries == 2   \* update: entries of the archive read
MaxRm == 1        \* update: number of -rm arguments
MaxSet == 2       \* update: number of -set arguments
MaxFiles == 2     \* test: number of FILE arguments
MaxIssues == 2    \* test: issues verify yields for one file

----------------------------------------------------------------------------
(* Strings and paths *)

RECURSIVE SeqsUpTo(_, _)
SeqsUpTo(S, n) ==
    IF n = 0 THEN {<<>>}
    ELSE LET shorter == SeqsUpTo(S, n - 1)
         IN  shorter \cup {Append(s, x) : s \in {t \in shorter : Len(t) = n - 1}, x \in S}

Concat(seqs) ==
    LET RECURSIVE cat(_)
        cat(i) == IF i > Len(seqs) THEN <<>> ELSE seqs[i] \o cat(i + 1)
    IN  cat(1)

\* str.rfind(tok): the last index holding tok, 0 when there is none
RFind(p, tok) ==
    LET hits == {i \in 1..Len(p) : p[i] = tok}
    IN  IF hits = {} THEN 0 ELSE CHOOSE i \in hits : \A j \in hits : j <= i

\* os.path.splitext(p)[1]: the extension starts at the last dot of the last
\* path component, unless only dots precede it in that component
splitext_ext(p) ==
    LET sepIndex == RFind(p, "/")
        dotIndex == RFind(p, ".")
    IN  IF dotIndex > sepIndex
           /\ \E i \in (sepIndex + 1)..(dotIndex - 1) : p[i] # "."
        THEN SubSeq(p, dotIndex, Len(p))
        ELSE <<>>

IsSpace(tok) == tok \in {" ", "\n"}

\* str.strip(): drop leading and trailing whitespace
strip(line) ==
    LET keep == {i \in 1..Len(line) : ~IsSpace(line[i])}
    IN  IF keep = {} THEN <<>>
        ELSE SubSeq(line, CHOOSE i \in keep : \A j \in keep : i <= j,
                          CHOOSE i \in keep : \A j \in keep : j <= i)

\* enum_with_stdin(file_arg) as the list it yields: every '-' stands for the
\* lines sys.stdin.readlines() returns, stripped; stdin is at its end after
\* the first '-', so a later '-' yields nothing
enum_with_stdin(file_arg, lines) ==
    Concat([i \in 1..Len(file_arg) |->
              IF file_arg[i] = <<"-">>
              THEN IF \E j \in 1..(i - 1) : file_arg[j] = <<"-">>
                   THEN <<>>
                   ELSE [j \in 1..Len(lines) |-> strip(lines[j])]
              ELSE <<file_arg[i]>>])

exists(path) == path \in DOMAIN fs
isfile(path) == path \in DOMAIN fs /\ fs[path].kind # "dir"

\* the file system after open(path, 'wb') and writing content
Written(files, path, content) ==
    [p \in DOMAIN files \cup {path} |-> IF p = path THEN content ELSE files[p]]

\* no handler has run yet
Idle ==
    /\ pc = "start" /\ todo = <<>> /\ icns = NoArchive /\ has_changes = FALSE
    /\ is_valid = "True" /\ cur = <<0, <<>>>> /\ out = <<>> /\ error = "none"
    /\ writes = <<>> /\ reads = {} /\ last = NoCall /\ fs0 = fs

----------------------------------------------------------------------------
(* The container codec the front end drives (specification 3, 4.1, 7):     *)
(* an archive is its ordered entries and whether it was read with a lookup *)
(* table; the table is kept apart from the entries.                        *)

TableTag == <<"TOC ">>

EmptyArchive == [entries |-> <<>>, toc |-> FALSE, live |-> TRUE]

Tags(a) == {a.entries[i].tag : i \in 1..Len(a.entries)}

IndexOf(a, tag) ==
    IF tag \in Tags(a)
    THEN CHOOSE i \in 1..Len(a.entries) : a.entries[i].tag = tag
    ELSE 0

\* the lookup table of an entry list: one (tag, length) record per non-table
\* entry, in archive order; an entry is 8 header bytes and its payload
TableOf(entries) ==
    LET media == SelectSeq(entries, LAMBDA e : e.tag # TableTag)
    IN  [i \in 1..Len(media) |->
            [tag |-> media[i].tag, length |-> 8 + Len(media[i].data)]]

\* write(archive, emit_lookup_table) as the bytes written
write_bytes(a, toc) ==
    [kind |-> "icns", has_table |-> toc,
     table |-> IF toc THEN TableOf(a.entries) ELSE <<>>,
     entries |-> a.entries]

\* parse: IcnsFile(path)
parse(content) ==
    [entries |-> content.entries, toc |-> content.has_table, live |-> TRUE]

has_toc(a) == a.toc

\* add_media with the tag resolved: DuplicateEntryError unless force or the
\* tag is new; on force the old entry is replaced in place
add_media(a, tag, data, force) ==
    LET i == IndexOf(a, tag)
    IN  IF i = 0
        THEN [err |-> "none",
              icns |-> [a EXCEPT !.entries = Append(@, [tag |-> tag, data |-> data])]]
        ELSE IF force
        THEN [err |-> "none",
              icns |-> [a EXCEPT !.entries[i] = [tag |-> tag, data |-> data]]]
        ELSE [err |-> "DuplicateEntryError", icns |-> a]

\* remove_media: removes at most one entry, tells whether it removed one
remove_media(a, tag) ==
    LET i == IndexOf(a, tag)
    IN  IF i = 0
        THEN [removed |-> FALSE, icns |-> a]
        ELSE [removed |-> TRUE,
              icns |-> [a EXCEPT !.entries =
                          SubSeq(@, 1, i - 1) \o SubSeq(@, i + 1, Len(@))]]

\* IcnsType.key_from_readable: a readable key names its tag, any other key is
\* the bare tag
key_from_readable(key) ==
    CASE key = <<"dark">> -> <<"FDD92FA8">>
      [] key = <<"selected">> -> <<"slct">>
      [] key = <<"template">> -> <<"sbtp">>
      [] OTHER -> key

\* add_media(file=path): the payload is the file's bytes; without a key the
\* tag is resolved from the image the file holds
media_of(path) ==
    IF path \in DOMAIN fs /\ fs[path].kind = "media"
    THEN [err |-> "none", tag |-> fs[path].tag, data |-> fs[path].data]
    ELSE [err |-> "OSError", tag |-> <<>>, data |-> <<>>]

----------------------------------------------------------------------------
(* compose *)

\* lines 33-35: the destination, '.icns' appended when it has no extension
compose_dest(target) ==
    IF splitext_ext(target) = <<>> THEN target \o <<".", "icns">> ELSE target

compose_checked_path_mut(a) == a.target
\* line 36: the path os.path.exists is asked about
compose_checked_path(a) == compose_dest(a.target)

compose_force_mut == TRUE
\* line 43: add_media(file=x) leaves force at its default
compose_force == FALSE

F1 == <<"f1", ".", "png">>
F2 == <<"f2", ".", "png">>
F3 == <<"f3", ".", "png">>
Missing == <<"nofile">>
Dash == <<"-">>

MediaFiles ==
    [p \in {F1, F2, F3} |->
        CASE p = F1 -> [kind |-> "media", tag |-> <<"ic07">>, data |-> <<1>>]
          [] p = F2 -> [kind |-> "media", tag |-> <<"FDD92FA8">>, data |-> <<2, 2>>]
          [] p = F3 -> [kind |-> "media", tag |-> <<"ic07">>, data |-> <<3, 3, 3>>]]

OldArchive ==
    write_bytes([entries |-> <<[tag |-> <<"ic07">>, data |-> <<0>>]>>, toc |-> TRUE, live |-> TRUE], TRUE)

ComposeTargets == {<<"a">>, <<"a", ".", "icns">>, <<".", "a">>, <<"a", ".">>}
ComposeStdins == {<<>>, <<F2 \o <<"\n">>>>, <<<<" ">> \o F3 \o <<"\n">>, Missing>>}

InitCompose ==
    /\ cmd = "compose"
    /\ \E old \in SUBSET {<<"a">>, <<"a", ".", "icns">>} :
         fs = [p \in DOMAIN MediaFiles \cup old |->
                 IF p \in old THEN OldArchive ELSE MediaFiles[p]]
    /\ \E t \in ComposeTargets, f \in BOOLEAN, nt \in BOOLEAN,
          src \in SeqsUpTo({F1, F2, F3, Dash}, MaxSources) \ {<<>>} :
         args = [target |-> t, force |-> f, no_toc |-> nt, source |-> src]
    /\ stdin \in ComposeStdins
    /\ Idle

\* lines 33-41: the destination check, then img = IcnsFile()
ComposeStart ==
    /\ cmd = "compose" /\ pc = "start"
    /\ IF ~args.force /\ exists(compose_checked_path(args))
       THEN /\ out' = Append(out, [stream |-> "stderr",
                                   text |-> "already exists. Force overwrite with -f.",
                                   file |-> compose_dest(args.target)])
            /\ pc' = "done"
            /\ UNCHANGED <<icns, todo>>
       ELSE /\ icns' = EmptyArchive
            /\ todo' = enum_with_stdin(args.source, stdin)
            /\ pc' = "add"
            /\ out' = out
    /\ UNCHANGED <<cmd, args, stdin, fs, has_changes, is_valid, cur, error,
                   writes, reads, last, fs0>>

\* lines 42-43: one iteration of for x in enum_with_stdin(args.source)
ComposeAdd ==
    /\ cmd = "compose" /\ pc = "add" /\ todo # <<>>
    /\ LET x == Head(todo)
           m == media_of(x)
           r == add_media(icns, m.tag, m.data, compose_force)
       IN  /\ reads' = reads \cup {x}
           /\ IF m.err # "none"
              THEN /\ error' = m.err /\ pc' = "failed"
                   /\ UNCHANGED <<icns, todo, last>>
              ELSE /\ last' = [call |-> "add_media", tag |-> m.tag,
                               force |-> compose_force, before |-> icns, err |-> r.err]
                   /\ icns' = r.icns
                   /\ IF r.err # "none"
                      THEN error' = r.err /\ pc' = "failed" /\ todo' = todo
                      ELSE error' = error /\ pc' = pc /\ todo' = Tail(todo)
    /\ UNCHANGED <<cmd, args, stdin, fs, has_changes, is_valid, cur, out,
                   writes, fs0>>

\* line 44: img.write(dest, toc=not args.no_toc)
ComposeWrite ==
    /\ cmd = "compose" /\ pc = "add" /\ todo = <<>>
    /\ LET dest == compose_dest(args.target)
       IN  /\ fs' = Written(fs, dest, write_bytes(icns, ~args.no_toc))
           /\ writes' = Append(writes, dest)
    /\ pc' = "done"
    /\ UNCHANGED <<cmd, args, stdin, todo, icns, has_changes, is_valid, cur,
                   out, error, reads, last, fs0>>

NextCompose == ComposeStart \/ ComposeAdd \/ ComposeWrite

SpecCompose == InitCompose /\ [][NextCompose]_vars

----------------------------------------------------------------------------
(* update *)

\* str.split(sep): the pieces between the occurrences of sep
RECURSIVE split(_, _)
split(str, sep) ==
    LET hits == {i \in 1..Len(str) : str[i] = sep}
    IN  IF hits = {} THEN <<str>>
        ELSE LET i == CHOOSE h \in hits : \A j \in hits : h <= j
             IN  <<SubSeq(str, 1, i - 1)>> \o split(SubSeq(str, i + 1, Len(str)), sep)

\* the truth value Python gives an optional string argument
Truthy(x) == x # None /\ x # <<>>

update_phase_mut(t) ==
    IF t.set # <<>> THEN "set" ELSE IF t.rm # <<>> THEN "rm" ELSE "write"
\* lines 52-71: the removals' loop, then the additions' loop, then the write
update_phase(t) ==
    IF t.rm # <<>> THEN "rm" ELSE IF t.set # <<>> THEN "set" ELSE "write"

rm_changes_mut(h, removed) == TRUE
\* line 53: has_changes |= icns.remove_media(...)
rm_changes(h, removed) == h \/ removed

\* line 68: has_changes = True
set_changes(h) == TRUE

update_force_mut == FALSE
\* line 67: add_media(..., force=True)
update_force == TRUE

\* line 64: os.path.isfile(val)
set_file_ok(val) == isfile(val)

\* line 70: if has_changes or args.output
update_should_write(h, output) == h \/ Truthy(output)

update_dest_mut(a) == a.file
\* line 71: args.output or args.file
update_dest(a) == IF Truthy(a.output) THEN a.output ELSE a.file

update_toc_mut(a) == TRUE
\* line 71: toc=icns.has_toc()
update_toc(a) == has_toc(a)

\* lines 56-65: what checking one KEY=FILE argument raises, or "none"
set_arg_error(key_val) ==
    IF "=" \notin {key_val[i] : i \in 1..Len(key_val)} THEN "ArgumentTypeError"
    ELSE IF Len(split(key_val, "=")) # 2 THEN "ValueError"
    ELSE IF split(key_val, "=")[2] = <<>> THEN "ArgumentTypeError"
    ELSE IF ~set_file_ok(split(key_val, "=")[2]) THEN "ArgumentTypeError"
    ELSE "none"

InFile == <<"in", ".", "icns">>
OutFile == <<"out", ".", "icns">>

UpdateTags == {<<"ic07">>, <<"FDD92FA8">>, <<"slct">>}
RmKeys == {<<"ic07">>, <<"dark">>, <<"TOC ">>}
KeyVals ==
    {<<"dark", "=">> \o F1, <<"ic07", "=">> \o F2, <<"ic07", "=">> \o F1,
     <<"ic07">>, <<"dark", "=">>, <<"ic07", "=">> \o Missing,
     <<"ic07", "=">> \o F1 \o <<"=", "x">>}

\* the archives update reads: distinct tags, the table as write produces it
InputArchives ==
    {write_bytes([entries |-> [i \in 1..Len(ts) |-> [tag |-> ts[i], data |-> <<0>>]],
                  toc |-> t, live |-> TRUE], t) :
        ts \in {s \in SeqsUpTo(UpdateTags, MaxEntries) :
                  \A i, j \in 1..Len(s) : s[i] = s[j] => i = j},
        t \in BOOLEAN}

InitUpdate ==
    /\ cmd = "update"
    /\ \E a \in InputArchives :
         fs = [p \in {InFile, F1, F2} |-> IF p = InFile THEN a ELSE MediaFiles[p]]
    /\ \E o \in {None, <<>>, OutFile, InFile},
          rm \in SeqsUpTo(RmKeys, MaxRm), set \in SeqsUpTo(KeyVals, MaxSet) :
         args = [file |-> InFile, output |-> o, rm |-> rm, set |-> set]
    /\ stdin = <<>>
    /\ Idle

\* lines 49-50: icns = IcnsFile(args.file); has_changes = False
UpdateStart ==
    /\ cmd = "update" /\ pc = "start"
    /\ icns' = parse(fs[args.file])
    /\ reads' = reads \cup {args.file}
    /\ has_changes' = FALSE
    /\ todo' = [rm |-> args.rm, set |-> args.set]
    /\ pc' = "run"
    /\ UNCHANGED <<cmd, args, stdin, fs, is_valid, cur, out, error, writes,
                   last, fs0>>

\* lines 52-53: one iteration of for x in args.rm or []
UpdateRm ==
    /\ cmd = "update" /\ pc = "run" /\ update_phase(todo) = "rm"
    /\ LET tag == key_from_readable(Head(todo.rm))
           r   == remove_media(icns, tag)
       IN  /\ icns' = r.icns
           /\ has_changes' = rm_changes(has_changes, r.removed)
           /\ last' = [call |-> "remove_media", tag |-> tag, before |-> icns,
                       removed |-> r.removed]
    /\ todo' = [todo EXCEPT !.rm = Tail(@)]
    /\ UNCHANGED <<cmd, args, stdin, fs, pc, is_valid, cur, out, error,
                   writes, reads, fs0>>

\* lines 55-68: one iteration of for key_val in args.set or []
UpdateSet ==
    /\ cmd = "update" /\ pc = "run" /\ update_phase(todo) = "set"
    /\ LET key_val == Head(todo.set)
           e       == set_arg_error(key_val)
       IN  IF e # "none"
           THEN /\ error' = e /\ pc' = "failed"
                /\ UNCHANGED <<icns, has_changes, last, todo, reads>>
           ELSE LET key == split(key_val, "=")[1]
                    val == split(key_val, "=")[2]
                    tag == key_from_readable(key)
                    m   == media_of(val)
                    r   == add_media(icns, tag, m.data, update_force)
                IN  /\ reads' = reads \cup {val}
                    /\ IF m.err # "none"
                       THEN /\ error' = m.err /\ pc' = "failed"
                            /\ UNCHANGED <<icns, has_changes, last, todo>>
                       ELSE /\ last' = [call |-> "add_media", tag |-> tag,
                                        data |-> m.data, force |-> update_force,
                                        before |-> icns, err |-> r.err]
                            /\ icns' = r.icns
                            /\ IF r.err # "none"
                               THEN /\ error' = r.err /\ pc' = "failed"
                                    /\ UNCHANGED <<has_changes, todo>>
                               ELSE /\ has_changes' = set_changes(has_changes)
                                    /\ todo' = [todo EXCEPT !.set = Tail(@)]
                                    /\ UNCHANGED <<error, pc>>
    /\ UNCHANGED <<cmd, args, stdin, fs, is_valid, cur, out, writes, fs0>>

\* lines 70-71: if has_changes or args.output: icns.write(...)
UpdateWrite ==
    /\ cmd = "update" /\ pc = "run" /\ update_phase(todo) = "write"
    /\ IF update_should_write(has_changes, args.output)
       THEN /\ fs' = Written(fs, update_dest(args), write_bytes(icns, update_toc(icns)))
            /\ writes' = Append(writes, update_dest(args))
       ELSE UNCHANGED <<fs, writes>>
    /\ pc' = "done"
    /\ UNCHANGED <<cmd, args, stdin, todo, icns, has_changes, is_valid, cur,
                   out, error, reads, last, fs0>>

NextUpdate == UpdateStart \/ UpdateRm \/ UpdateSet \/ UpdateWrite

SpecUpdate == InitUpdate /\ [][NextUpdate]_vars

----------------------------------------------------------------------------
(* test (verify) *)

\* IcnsFile.verify(fname): the issues of the file's bytes, in order
verify(fname) == fs[fname].issues

\* the truth value Python gives is_valid: only True is true
IsTrue(v) == v = "True"

verify_after_header_mut == "True"
\* line 87: is_valid = None, once the header is printed
verify_after_header == "None"

\* line 93: if not args.quiet and is_valid is not False
verify_prints_ok(quiet, v) == ~quiet /\ v # "False"

Line(i, kind, text) == [idx |-> i, kind |-> kind, text |-> text]

V1 == <<"v1", ".", "icns">>
V2 == <<"v2", ".", "icns">>
Issues == {"length mismatch", "duplicate tag"}

InitVerify ==
    /\ cmd = "test"
    /\ \E i1, i2 \in SeqsUpTo(Issues, MaxIssues) :
         fs = [p \in {V1, V2} |->
                 [kind |-> "icns", issues |-> IF p = V1 THEN i1 ELSE i2]]
    /\ \E q \in BOOLEAN, f \in SeqsUpTo({V1, V2, Dash}, MaxFiles) \ {<<>>} :
         args = [quiet |-> q, file |-> f]
    /\ stdin \in {<<>>, <<V2 \o <<"\n">>>>}
    /\ Idle

\* line 83: the iterator over enum_with_stdin(args.file) is made
VerifyStart ==
    /\ cmd = "test" /\ pc = "start"
    /\ todo' = [files |-> enum_with_stdin(args.file, stdin), issues |-> <<>>]
    /\ pc' = "file"
    /\ UNCHANGED <<cmd, args, stdin, fs, icns, has_changes, is_valid, cur,
                   out, error, writes, reads, last, fs0>>

\* lines 83-88: the next file: is_valid = True, the header unless quiet,
\* then the file's issue sequence is made
VerifyFile ==
    /\ cmd = "test" /\ pc = "file" /\ todo.files # <<>>
    /\ LET fname == Head(todo.files)
           i     == cur[1] + 1
       IN  /\ cur' = <<i, fname>>
           /\ IF ~args.quiet
              THEN /\ out' = Append(out, Line(i, "File:", fname))
                   /\ is_valid' = verify_after_header
              ELSE /\ out' = out
                   /\ is_valid' = "True"
           /\ todo' = [files |-> Tail(todo.files), issues |-> verify(fname)]
           /\ reads' = reads \cup {fname}
    /\ pc' = "issues"
    /\ UNCHANGED <<cmd, args, stdin, fs, icns, has_changes, error, writes,
                   last, fs0>>

\* lines 88-92: one iteration of for issue in IcnsFile.verify(fname)
VerifyIssue ==
    /\ cmd = "test" /\ pc = "issues" /\ todo.issues # <<>>
    /\ out' = (IF IsTrue(is_valid)
               THEN Append(out, Line(cur[1], "File:", cur[2]))
               ELSE out) \o <<Line(cur[1], "issue", Head(todo.issues))>>
    /\ is_valid' = "False"
    /\ todo' = [todo EXCEPT !.issues = Tail(@)]
    /\ UNCHANGED <<cmd, args, stdin, fs, pc, icns, has_changes, cur, error,
                   writes, reads, last, fs0>>

\* lines 93-94: the issues are exhausted: OK unless quiet or an issue was seen
VerifyEnd ==
    /\ cmd = "test" /\ pc = "issues" /\ todo.issues = <<>>
    /\ out' = IF verify_prints_ok(args.quiet, is_valid)
              THEN Append(out, Line(cur[1], "OK", <<>>))
              ELSE out
    /\ pc' = "file"
    /\ UNCHANGED <<cmd, args, stdin, fs, todo, icns, has_changes, is_valid,
                   cur, error, writes, reads, last, fs0>>

\* line 83: the files are exhausted
VerifyDone ==
    /\ cmd = "test" /\ pc = "file" /\ todo.files = <<>>
    /\ pc' = "done"
    /\ UNCHANGED <<cmd, args, stdin, fs, todo, icns, has_changes, is_valid,
                   cur, out, error, writes, reads, last, fs0>>

NextVerify == VerifyStart \/ VerifyFile \/ VerifyIssue \/ VerifyEnd \/ VerifyDone

SpecVerify == InitVerify /\ [][NextVerify]_vars

----------------------------------------------------------------------------
(* convert *)

\* ArgbImage.rgb_data / mask_data / argb_data / write_png as the stream they
\* produce: its name and n, the number of bytes (of pixels for argb and png)
rgb_data(img)  == [data |-> "rgb",  n |-> img.size[1] * img.size[2] * 3]
mask_data(img) == [data |-> "mask", n |-> img.size[1] * img.size[2]]
argb_data(img) == [data |-> "argb", n |-> img.size[1] * img.size[2]]
png_data(img)  == [data |-> "png",  n |-> img.size[1] * img.size[2]]
ZeroBytes(k)   == [data |-> "zero", n |-> k]

\* ArgbImage(file=...): the image's dimensions are read from the file
ArgbImage(path) == [size |-> fs[path].size]

convert_dest(a) ==
    IF a.target \in {<<"png">>, <<"argb">>, <<"rgb">>}
    THEN a.source \o <<".">> \o a.target
    ELSE a.target

it32_header_mut(raw, size) == size = <<128, 128>>
\* line 115: if not args.raw and img.size == (128, 128)
it32_header(raw, size) == ~raw /\ size = <<128, 128>>

rgb_file(raw, img) ==
    (IF it32_header(raw, img.size) THEN <<ZeroBytes(4)>> ELSE <<>>)
        \o <<rgb_data(img)>>

Sizes == {<<16, 16>>, <<128, 128>>, <<128, 64>>, <<64, 128>>, <<32, 32>>}
ConvertTargets ==
    {<<"png">>, <<"argb">>, <<"rgb">>, <<"o", ".", "rgb">>, <<"o", ".", "png">>,
     <<"o", ".", "argb">>, <<"o">>, <<"d", ".", "rgb", "/", "o">>}
SrcImage == <<"s", ".", "png">>
MaskFile == <<"m", ".", "mask">>

InitConvert ==
    /\ cmd = "convert"
    /\ \E sz \in Sizes, msk \in BOOLEAN :
         fs = [p \in {SrcImage} \cup (IF msk THEN {MaskFile} ELSE {}) |->
                 IF p = SrcImage THEN [kind |-> "image", size |-> sz]
                 ELSE [kind |-> "mask", size |-> sz]]
    /\ \E raw \in BOOLEAN, t \in ConvertTargets :
         args = [source |-> SrcImage, target |-> t, raw |-> raw,
                 mask |-> IF MaskFile \in DOMAIN fs THEN MaskFile ELSE None]
    /\ stdin = <<>>
    /\ Idle

cli_convert ==
    /\ cmd = "convert" /\ pc = "start"
    /\ LET img  == ArgbImage(args.source)
           dest == convert_dest(args)
           ext  == splitext_ext(dest)
       IN  /\ reads' = {args.source} \cup (IF args.mask # None THEN {args.mask} ELSE {})
           /\ IF ext = <<".", "png">>
              THEN /\ fs' = Written(fs, dest, <<png_data(img)>>)
                   /\ writes' = <<dest>>
                   /\ out' = out
              ELSE IF ext = <<".", "argb">>
              THEN /\ fs' = Written(fs, dest, <<argb_data(img)>>)
                   /\ writes' = <<dest>>
                   /\ out' = out
              ELSE IF ext = <<".", "rgb">>
              THEN /\ fs' = Written(Written(fs, dest, rgb_file(args.raw, img)),
                                    dest \o <<".", "mask">>, <<mask_data(img)>>)
                   /\ writes' = <<dest, dest \o <<".", "mask">>>>
                   /\ out' = out
              ELSE /\ fs' = fs
                   /\ writes' = writes
                   /\ out' = Append(out, [stream |-> "stderr",
                                          text |-> "Could not determine target image-type",
                                          file |-> dest])
    /\ pc' = "done"
    /\ UNCHANGED <<cmd, args, stdin, todo, icns, has_changes, is_valid, cur,
                   error, last, fs0>>

NextConvert == cli_convert

SpecConvert == InitConvert /\ [][NextConvert]_vars

----------------------------------------------------------------------------
\* the target's extension selects the planar RGB + mask output
RgbTarget == splitext_ext(convert_dest(args)) = <<".", "rgb">>

\* C1: converting to an '.rgb' target writes, for every size (w,h) and raw
\* flag, the 4 zero bytes followed by the w*h*3 RGB bytes exactly when
\* (w,h) = (128,128) and raw is not set, and the bare w*h*3 RGB bytes in
\* every other case.
C1_RgbPrefix ==
    (cmd = "convert" /\ pc = "done" /\ RgbTarget) =>
        LET dest == convert_dest(args)
            w == fs0[args.source].size[1]
            h == fs0[args.source].size[2]
            body == [data |-> "rgb", n |-> w * h * 3]
        IN  /\ dest \in DOMAIN fs
            /\ IF w = 128 /\ h = 128 /\ ~args.raw
               THEN fs[dest] = <<[data |-> "zero", n |-> 4], body>>
               ELSE fs[dest] = <<body>>

C1_Witness ==
    /\ cmd = "convert" /\ pc = "done" /\ RgbTarget
    /\ fs0[args.source].size = <<128, 128>> /\ ~args.raw
    /\ Len(fs[convert_dest(args)]) = 2

----------------------------------------------------------------------------
\* C2: compose adds every source with force=false; when a source resolves
\* to a tag the archive built so far already holds, add_media fails with
\* DuplicateEntryError, leaves that archive unchanged, and no destination
\* file is written; a write happens only after every source was added.
C2_ComposeDuplicate ==
    cmd = "compose" =>
        /\ last.call = "add_media" =>
             /\ last.force = FALSE
             /\ last.tag \in Tags(last.before) =>
                  /\ error = "DuplicateEntryError" /\ pc = "failed"
                  /\ icns = last.before
                  /\ writes = <<>> /\ fs = fs0
        /\ error # "none" => (writes = <<>> /\ fs = fs0)
        /\ writes # <<>> =>
             /\ pc = "done" /\ error = "none"
             /\ Len(icns.entries) = Len(enum_with_stdin(args.source, stdin))
             /\ Cardinality(Tags(icns)) = Len(icns.entries)

C2_Witness ==
    /\ cmd = "compose" /\ pc = "failed" /\ error = "DuplicateEntryError"
    /\ last.call = "add_media" /\ last.tag \in Tags(last.before)
    /\ Len(icns.entries) = 1

\* C4: when the path compose would write (the target, '.icns' appended if it
\* has no extension) exists and force is not set, compose reads no source,
\* builds no archive and writes nothing: the existing file is unchanged.
C4_ComposeNoOverwrite ==
    (cmd = "compose" /\ ~args.force /\ compose_dest(args.target) \in DOMAIN fs0) =>
        /\ reads = {} /\ icns = NoArchive /\ writes = <<>> /\ fs = fs0
        /\ pc \in {"start", "done"}

C4_Witness ==
    /\ cmd = "compose" /\ pc = "done" /\ ~args.force
    /\ args.target = <<"a">> /\ <<"a">> \notin DOMAIN fs0
    /\ <<"a", ".", "icns">> \in DOMAIN fs0
    /\ fs[<<"a", ".", "icns">>] = OldArchive
    /\ Len(out) = 1

----------------------------------------------------------------------------
(* Claims about update *)

SetKey(key_val) == key_from_readable(split(key_val, "=")[1])
\* the FILE part of a KEY=FILE argument: what follows the first '='
SetFilePart(key_val) ==
    LET hits == {i \in 1..Len(key_val) : key_val[i] = "="}
    IN  SubSeq(key_val, (CHOOSE h \in hits : \A j \in hits : h <= j) + 1, Len(key_val))
InputTags == {fs0[args.file].entries[i].tag : i \in 1..Len(fs0[args.file].entries)}
TagSeq(entries) == [i \in 1..Len(entries) |-> entries[i].tag]

\* C3: update -set always adds with force=true: for a key the archive holds
\* it never fails with DuplicateEntryError, the number of entries stays and
\* the entry keeps its position with the new payload; for a key the archive
\* does not hold, the entry is appended and the count grows by one.
C3_SetAppendsOrReplaces ==
    (cmd = "update" /\ last.call = "add_media") =>
        LET b   == last.before.entries
            new == [tag |-> last.tag, data |-> last.data]
            at  == {i \in 1..Len(b) : b[i].tag = last.tag}
        IN  /\ last.force = TRUE
            /\ last.err = "none" /\ error # "DuplicateEntryError"
            /\ IF at # {}
               THEN /\ Len(icns.entries) = Len(b)
                    /\ \A i \in 1..Len(b) :
                         icns.entries[i] = IF i \in at THEN new ELSE b[i]
               ELSE /\ Len(icns.entries) = Len(b) + 1
                    /\ icns.entries = b \o <<new>>

C3_Witness ==
    /\ cmd = "update" /\ last.call = "add_media"
    /\ Len(last.before.entries) = 2
    /\ last.before.entries[1].tag = last.tag
    /\ icns.entries[1].data = <<2, 2>>
    /\ icns.entries[2] = last.before.entries[2]

\* C5 as stated: whenever --output is given, update performs exactly one
\* write, to the output path, and the input file's bytes are left unchanged
\* (stated of the runs that complete, with an output path that is a path).
C5_Original ==
    (cmd = "update" /\ Truthy(args.output) /\ pc = "done") =>
        /\ writes = <<args.output>>
        /\ fs[args.file] = fs0[args.file]

\* C5 as amended: when --output names a path (not the empty string), a run
\* of update that completes without error performs exactly one write, to
\* that path, and leaves the input file's bytes unchanged unless the path is
\* the input file itself; a run that fails performs no write.
C5_OutputIsDestination ==
    (cmd = "update" /\ Truthy(args.output)) =>
        /\ pc # "done" => (writes = <<>> /\ fs = fs0)
        /\ pc = "done" =>
             /\ writes = <<args.output>>
             /\ args.output \in DOMAIN fs
             /\ args.output # args.file => fs[args.file] = fs0[args.file]
             /\ \A p \in DOMAIN fs0 \ {args.output} : fs[p] = fs0[p]

C5_Witness ==
    /\ cmd = "update" /\ pc = "done" /\ args.output = OutFile
    /\ has_changes /\ args.rm # <<>> /\ args.set # <<>>
    /\ writes = <<OutFile>>
    /\ fs[InFile] = fs0[InFile]
    /\ fs[OutFile].entries # fs0[InFile].entries

\* a run whose only actions are removals of keys the archive read lacks
OnlyAbsentRemovals ==
    /\ args.set = <<>> /\ args.output = None
    /\ \A i \in 1..Len(args.rm) : key_from_readable(args.rm[i]) \notin InputTags

\* C6: remove_media on a tag the archive does not hold returns false and
\* leaves the entries unchanged; an update run whose only actions are
\* removals of absent keys, with no output path, performs no write: the file
\* on disk is unchanged.
C6_RemoveAbsentNoop ==
    cmd = "update" =>
        /\ (last.call = "remove_media" /\ last.tag \notin Tags(last.before)) =>
             (last.removed = FALSE /\ icns = last.before)
        /\ OnlyAbsentRemovals => (has_changes = FALSE /\ writes = <<>> /\ fs = fs0)

C6_Witness ==
    /\ cmd = "update" /\ pc = "done" /\ OnlyAbsentRemovals
    /\ args.rm = <<<<"dark">>>> /\ Len(fs0[InFile].entries) = 2
    /\ last.call = "remove_media" /\ last.removed = FALSE

\* C7: whenever update writes, the written archive has a lookup table if and
\* only if the archive read had one, and the table lists every non-table
\* entry of the final entry list exactly once, in archive order.
C7_TableFlagKept ==
    (cmd = "update" /\ writes # <<>>) =>
        LET w     == fs[writes[1]]
            media == SelectSeq(w.entries, LAMBDA e : e.tag # TableTag)
        IN  /\ w.has_table = fs0[args.file].has_table
            /\ w.entries = icns.entries
            /\ w.has_table =>
                 /\ TagSeq(w.table) = TagSeq(media)
                 /\ \A i, j \in 1..Len(w.table) :
                      w.table[i].tag = w.table[j].tag => i = j
            /\ ~w.has_table => w.table = <<>>

C7_Witness ==
    /\ cmd = "update" /\ writes # <<>> /\ fs0[InFile].has_table
    /\ args.rm # <<>> /\ last.call = "add_media"
    /\ Len(fs[writes[1]].table) = 2
    /\ TagSeq(fs[writes[1]].table) # TagSeq(fs0[InFile].table)

\* a -set argument with no '=', an empty FILE part or a FILE that is no file
BadSetArg(key_val) ==
    \/ "=" \notin {key_val[i] : i \in 1..Len(key_val)}
    \/ SetFilePart(key_val) = <<>>
    \/ SetFilePart(key_val) \notin DOMAIN fs0

\* C9 as stated: if any -set argument has no '=', has an empty FILE part or
\* names a file that does not exist, update fails with ArgumentTypeError and
\* writes no file.
C9_Original ==
    (cmd = "update" /\ pc \in {"done", "failed"}
       /\ \E i \in 1..Len(args.set) : BadSetArg(args.set[i])) =>
        /\ pc = "failed" /\ error = "ArgumentTypeError"
        /\ writes = <<>> /\ fs = fs0

\* C10: every removal is applied before any addition: a key named in both
\* -rm and -set is in the written archive with the payload of the (last)
\* -set file for it, and a run with a successful -set always writes.
C10_RemovalsBeforeAdditions ==
    (cmd = "update" /\ pc = "done" /\ args.set # <<>>) =>
        /\ has_changes /\ Len(writes) = 1
        /\ \A i \in 1..Len(args.rm) :
             LET tag  == key_from_readable(args.rm[i])
                 sets == {j \in 1..Len(args.set) : SetKey(args.set[j]) = tag}
             IN  sets # {} =>
                   LET j == CHOOSE k \in sets : \A l \in sets : l <= k
                       w == fs[writes[1]].entries
                   IN  \E k \in 1..Len(w) :
                         /\ w[k].tag = tag
                         /\ w[k].data = fs0[SetFilePart(args.set[j])].data

C10_Witness ==
    /\ cmd = "update" /\ pc = "done" /\ args.output = None
    /\ args.rm = <<<<"dark">>>> /\ args.set = <<<<"dark", "=">> \o F1>>
    /\ <<"FDD92FA8">> \in InputTags
    /\ last.call = "add_media" /\ last.tag \notin Tags(last.before)
    /\ writes = <<InFile>>

----------------------------------------------------------------------------
(* Claims about test (verify) *)

\* the files whose report is complete, by position in the run
ReportedFiles ==
    IF pc \in {"file", "done"} THEN 1..cur[1] ELSE 1..(cur[1] - 1)
LinesOf(i) == SelectSeq(out, LAMBDA l : l.idx = i)
CountKind(lines, kind) == Cardinality({j \in 1..Len(lines) : lines[j].kind = kind})

\* C8: per file, for any finite issue sequence: the 'File:' header is printed
\* once when quiet is off or the file has an issue and not at all when quiet
\* is on and it has none; the header precedes the first issue line; 'OK' is
\* printed exactly when quiet is off and there is no issue, never when quiet.
C8_VerifyReport ==
    cmd = "test" =>
        /\ \A i \in ReportedFiles :
             LET fname  == enum_with_stdin(args.file, stdin)[i]
                 issues == fs0[fname].issues
                 lines  == LinesOf(i)
             IN  /\ CountKind(lines, "File:") =
                      (IF ~args.quiet \/ issues # <<>> THEN 1 ELSE 0)
                 /\ CountKind(lines, "OK") =
                      (IF ~args.quiet /\ issues = <<>> THEN 1 ELSE 0)
                 /\ CountKind(lines, "issue") = Len(issues)
                 /\ \A j \in 1..Len(lines) : lines[j].kind = "File:" => lines[j].text = fname
        /\ \A j \in 1..Len(out) :
             out[j].kind = "issue" =>
                \E k \in 1..(j - 1) : out[k].kind = "File:" /\ out[k].idx = out[j].idx
        /\ args.quiet => \A j \in 1..Len(out) : out[j].kind # "OK"

C8_Witness ==
    /\ cmd = "test" /\ pc = "done" /\ args.quiet /\ cur[1] = 2
    /\ LinesOf(1) = <<>>
    /\ Len(LinesOf(2)) = 3 /\ LinesOf(2)[1].kind = "File:"
    /\ LinesOf(2)[2].kind = "issue" /\ LinesOf(2)[3].kind = "issue"

====
